---- MODULE Spec2Model ----
(***************************************************************************)
(* LDAR-Sim, model_code/OGI_crew.py: one OGI crew's working day.           *)
(*                                                                         *)
(* work_a_day computes the work window, then loops choose_site /           *)
(* visit_site on the shared registries and the shared clock, and books the *)
(* daily cost.  The handler is followed statement by statement: pc is the  *)
(* position of the one running call (the simulation is single-threaded, so *)
(* no other operation is enabled while a call is under way).               *)
(*                                                                         *)
(* Numbers.  Hours are floats in the source; work_hours is drawn from      *)
(* integers here, so start_hour and end_hour are multiples of 0.5 and are  *)
(* kept as counts of half hours; int() of them is IntHour.  The clock is   *)
(* a date (day number) and the minute of that day.                         *)
(***************************************************************************)
EXTENDS Integers, Sequences, FiniteSets, TLC

\* ------------------------------------------------------------------ bounds
MaxSites == 2
MaxLeaks == 2

\* ------------------------------------------------------ values drawn from
Crews == {1, 2}
Timesteps == {0, 1}
AgeSet == {0, 1, 2}
MinIntervalSet == {0, 1}
\* consider_daylight, max_workday and today's daylight hours
HourSettings == {<<FALSE, 24, 12>>, <<TRUE, 8, 7>>, <<TRUE, 8, 12>>,
                 <<TRUE, 8, 0>>}
SiteKinds == {"open", "blocked", "quota_met", "attempted"}
NewSiteKinds == {"new"}
LeakKinds == {"fresh", "tagged", "zero", "inactive"}

None == 0
NoDate == [day |-> 0, min |-> 0]
NotRaised == [exc |-> "none", line |-> 0]

config == [name |-> "OGI_company"]

VARIABLES
    sites,            \* state['sites']: the site registry, a list of records
    leaks,            \* state['leaks']: the leak registry
    tags,             \* state['tags']: the tag pool, references into leaks
    t,                \* state['t']: current_date and current_timestep
    offsite_times,    \* state['offsite_times']
    timeseries,       \* OGI_cost, OGI_redund_tags, OGI_sites_visited
    parameters,       \* consider_daylight and methods.OGI.*
    deployment_days,  \* [lon_index, lat_index, timestep] -> BOOLEAN
    daylight,         \* state['daylight']: timestep -> daylight hours
    worked_today,     \* each crew's self.worked_today
    pc,               \* position of the running call
    crew,             \* crewstate['id'] of the running (or last) call
    end_hour,         \* work_a_day's local, in half hours
    facility_ID,      \* work_a_day's locals returned by choose_site
    site,             \*   (site is the index of the record in sites)
    leaks_present,    \* visit_site's local list
    detect,           \* visit_site's local: the last binomial draw
    raised,           \* the exception that ended the last call, if any
    call0,            \* history: the shared state when the call began
    visit0            \* history: the shared state when visit_site began

vars == <<sites, leaks, tags, t, offsite_times, timeseries, parameters,
          deployment_days, daylight, worked_today, pc, crew, end_hour, facility_ID,
          site, leaks_present, detect, raised, call0, visit0>>

shared == <<sites, leaks, tags, t, timeseries>>
setup == <<offsite_times, parameters, deployment_days, daylight>>

\* ------------------------------------------------------------- the clock
\* datetime.hour
Hour(date) == date.min \div 60

\* datetime.replace(hour = h): the minute is kept
ReplaceHour(date, h) == [date EXCEPT !.min = h * 60 + (date.min % 60)]

\* datetime + timedelta(minutes = m)
AddMinutes(date, m) ==
    [day |-> date.day + ((date.min + m) \div 1440),
     min |-> (date.min + m) % 1440]

\* int() of a float kept in half hours (the values are never negative)
IntHour(halves) == halves \div 2

\* int() of a minute count (OGI_time, offsite time): the registries hold
\* whole minutes, on which int() is the value itself
IntMinutes(m) == m

\* ------------------------------------------------------------ registries
GridCells == (1..MaxSites) \X {1} \X Timesteps

\* survey minutes of facility i
SiteMinutes(i) == IF i % 2 = 1 THEN 180 ELSE 300

MakeSite(i, age, kind) ==
    [facility_ID |-> i,
     lon_index |-> i,
     lat_index |-> 1,
     OGI_t_since_last_LDAR |-> age,
     attempted_today_OGI |-> (kind = "attempted"),
     OGI_required_surveys |-> 2,
     surveys_done_this_year_OGI |->
         IF kind = "quota_met" THEN 2 ELSE IF kind = "new" THEN 0 ELSE 1,
     OGI_surveys_conducted |->
         IF kind = "quota_met" THEN 2 ELSE IF kind = "new" THEN 0 ELSE 1,
     OGI_missed_leaks |-> 0,
     OGI_time |-> SiteMinutes(i)]

MakeLeak(i, kind) ==
    [facility_ID |-> (((i - 1) \div 2) % MaxSites) + 1,
     status |-> IF kind = "inactive" THEN "inactive" ELSE "active",
     rate |-> IF kind = "zero" THEN 0 ELSE 1,
     tagged |-> (kind = "tagged"),
     date_found |-> IF kind = "tagged" THEN [day |-> 0, min |-> 600] ELSE NoDate,
     found_by_company |-> IF kind = "tagged" THEN "other_company" ELSE "None",
     found_by_crew |-> IF kind = "tagged" THEN 1 ELSE None]

Snapshot == [sites |-> sites, leaks |-> leaks, tags |-> tags, t |-> t,
             timeseries |-> timeseries]

\* timeseries[name][index] += amount
Add(ts, name, index, amount) ==
    [ts EXCEPT ![name] = [@ EXCEPT ![index] = @ + amount]]

\* --------------------------------------------------------- work_a_day
\* lines 47-57: the hours the crew works today
WorkHours ==
    LET max_work == parameters.max_workday
        daylight_hours == daylight[t.current_timestep]
    IN IF parameters.consider_daylight = TRUE
       THEN IF daylight_hours <= max_work THEN daylight_hours ELSE max_work
       ELSE max_work

\* line 59
HoursAccepted(work_hours) == work_hours < 24 /\ work_hours # 0

\* line 60, in half hours: (24 - work_hours) / 2
StartHour(work_hours) == 24 - work_hours

\* line 61, in half hours: start_hour + work_hours
EndHour(work_hours) == StartHour(work_hours) + 2 * work_hours

\* ---------------------------------------------------------- choose_site
\* a sort that is not stable: a site goes before the sites of its own age
InsertByAgeBeforeTies(sorted, x) ==
    LET k == Cardinality({j \in DOMAIN sorted :
                 sorted[j].OGI_t_since_last_LDAR > x.OGI_t_since_last_LDAR})
    IN SubSeq(sorted, 1, k) \o <<x>> \o SubSeq(sorted, k + 1, Len(sorted))

\* line 86: sorted(..., key = age, reverse = True); Python's sort is stable,
\* also with reverse = True: a site goes after every site at least as old
InsertByAge(sorted, x) ==
    LET k == Cardinality({j \in DOMAIN sorted :
                 sorted[j].OGI_t_since_last_LDAR >= x.OGI_t_since_last_LDAR})
    IN SubSeq(sorted, 1, k) \o <<x>> \o SubSeq(sorted, k + 1, Len(sorted))

RECURSIVE SortByNeglect(_)
SortByNeglect(ss) ==
    IF ss = <<>> THEN <<>>
    ELSE InsertByAge(SortByNeglect(SubSeq(ss, 1, Len(ss) - 1)), ss[Len(ss)])

\* the comparison of line 98 turned around
UnripenedReversed(s) == s.OGI_t_since_last_LDAR > parameters.min_interval

\* line 98
Unripened(s) == s.OGI_t_since_last_LDAR < parameters.min_interval

\* line 103 with <= for <
QuotaOpenOffByOne(s) ==
    s.surveys_done_this_year_OGI <= s.OGI_required_surveys

\* line 103
QuotaOpen(s) == s.surveys_done_this_year_OGI < s.OGI_required_surveys

\* line 106
Deployable(s) ==
    deployment_days[<<s.lon_index, s.lat_index, t.current_timestep>>] = TRUE

\* lines 113-114 without line 115: the age is not reset
SurveyedKeepsAge(s) ==
    [s EXCEPT !.OGI_surveys_conducted = @ + 1,
              !.surveys_done_this_year_OGI = @ + 1]

\* lines 113-115 with line 119 run for the selected site as well
SurveyedAndAttempted(s) ==
    [s EXCEPT !.OGI_surveys_conducted = @ + 1,
              !.surveys_done_this_year_OGI = @ + 1,
              !.OGI_t_since_last_LDAR = 0,
              !.attempted_today_OGI = TRUE]

\* lines 113-115
Surveyed(s) ==
    [s EXCEPT !.OGI_surveys_conducted = @ + 1,
              !.surveys_done_this_year_OGI = @ + 1,
              !.OGI_t_since_last_LDAR = 0]

\* line 119
Attempted(s) == [s EXCEPT !.attempted_today_OGI = TRUE]

\* lines 92-119: the scan from position i of the sorted registry.  site is
\* the position of the loop variable when the loop ends (0: never bound);
\* day_over says whether line 99 moved the clock to hour 23.
RECURSIVE ScanSites(_, _)
ScanSites(ss, i) ==
    IF i > Len(ss)
    THEN [sites |-> ss, facility_ID |-> None, found_site |-> FALSE,
          site |-> i - 1, day_over |-> FALSE]
    ELSE IF ss[i].attempted_today_OGI # FALSE
    THEN ScanSites(ss, i + 1)
    ELSE IF Unripened(ss[i])
    THEN [sites |-> ss, facility_ID |-> None, found_site |-> FALSE,
          site |-> i, day_over |-> TRUE]
    ELSE IF QuotaOpen(ss[i])
    THEN IF Deployable(ss[i])
         THEN [sites |-> [ss EXCEPT ![i] = Surveyed(ss[i])],
               facility_ID |-> ss[i].facility_ID, found_site |-> TRUE,
               site |-> i, day_over |-> FALSE]
         ELSE ScanSites([ss EXCEPT ![i] = Attempted(ss[i])], i + 1)
    ELSE ScanSites(ss, i + 1)

\* lines 88-121 without the ranking of line 86
choose_site_unranked == ScanSites(sites, 1)

\* lines 86-121
choose_site == ScanSites(SortByNeglect(sites), 1)

\* ----------------------------------------------------------- visit_site
\* lines 129-133 without the status test of line 132
RECURSIVE LeaksFromAnyStatus(_, _)
LeaksFromAnyStatus(fid, i) ==
    IF i > Len(leaks) THEN <<>>
    ELSE (IF leaks[i].facility_ID = fid
          THEN <<i>> ELSE <<>>) \o LeaksFromAnyStatus(fid, i + 1)

\* lines 129-133: the active leaks of the facility, from position i of the
\* leak registry on, as references (positions) into the registry
RECURSIVE LeaksFrom(_, _)
LeaksFrom(fid, i) ==
    IF i > Len(leaks) THEN <<>>
    ELSE (IF leaks[i].facility_ID = fid /\ leaks[i].status = "active"
          THEN <<i>> ELSE <<>>) \o LeaksFrom(fid, i + 1)

LeaksPresent(fid) == LeaksFrom(fid, 1)

\* lines 139-144 without the test of line 139: a leak of rate 0 can be seen
DetectDrawsAnyRate(leak) == {0, 1}

\* lines 139-144: binomial(1, prob_detect); the logistic value lies strictly
\* between 0 and 1 for a positive rate, so both draws can come out
DetectDraws(leak) == IF leak.rate = 0 THEN {0} ELSE {0, 1}

\* lines 152-155
Tagged(leak) ==
    [leak EXCEPT !.tagged = TRUE,
                 !.date_found = t.current_date,
                 !.found_by_company = config.name,
                 !.found_by_crew = crew]

\* lines 146-159 without the test of line 147: every detection tags
AfterDrawTagsAgain(l, d) ==
    IF d = 1
    THEN [leaks |-> [leaks EXCEPT ![l] = Tagged(leaks[l])],
          tags |-> Append(tags, l), sites |-> sites,
          timeseries |-> timeseries]
    ELSE [leaks |-> leaks, tags |-> tags,
          sites |-> [sites EXCEPT ![site].OGI_missed_leaks = @ + 1],
          timeseries |-> timeseries]

\* lines 146-159 with lines 153-155 also run for a leak already tagged
AfterDrawRewrites(l, d) ==
    IF d = 1
    THEN IF leaks[l].tagged = TRUE
         THEN [leaks |-> [leaks EXCEPT ![l] = Tagged(leaks[l])],
               tags |-> tags, sites |-> sites,
               timeseries |-> Add(timeseries, "OGI_redund_tags",
                                  t.current_timestep, 1)]
         ELSE [leaks |-> [leaks EXCEPT ![l] = Tagged(leaks[l])],
               tags |-> Append(tags, l), sites |-> sites,
               timeseries |-> timeseries]
    ELSE [leaks |-> leaks, tags |-> tags,
          sites |-> [sites EXCEPT ![site].OGI_missed_leaks = @ + 1],
          timeseries |-> timeseries]

\* lines 146-159: what one leak's draw does to the shared state
AfterDraw(l, d) ==
    IF d = 1
    THEN IF leaks[l].tagged = TRUE
         THEN [leaks |-> leaks, tags |-> tags, sites |-> sites,
               timeseries |-> Add(timeseries, "OGI_redund_tags",
                                  t.current_timestep, 1)]
         ELSE [leaks |-> [leaks EXCEPT ![l] = Tagged(leaks[l])],
               tags |-> Append(tags, l), sites |-> sites,
               timeseries |-> timeseries]
    ELSE [leaks |-> leaks, tags |-> tags,
          sites |-> [sites EXCEPT ![site].OGI_missed_leaks = @ + 1],
          timeseries |-> timeseries]

\* line 161
AfterSurvey(date, s) == AddMinutes(date, IntMinutes(s.OGI_time))

\* line 162 with timedelta(hours = ...)
AfterTravelInHours(date, offsite) == AddMinutes(date, 60 * IntMinutes(offsite))

\* line 162, once the offsite time is drawn
AfterTravel(date, offsite) == AddMinutes(date, IntMinutes(offsite))

\* line 163
CountVisit(ts) == Add(ts, "OGI_sites_visited", t.current_timestep, 1)

\* lines 73-74 inside the loop: the cost booked per visit
DayCostPerVisit(ts) ==
    Add(ts, "OGI_cost", t.current_timestep,
        parameters.cost_per_day
          * (ts.OGI_sites_visited[t.current_timestep]
               - call0.state.timeseries.OGI_sites_visited[t.current_timestep]))

\* lines 73-74
DayCost(ts) ==
    IF worked_today[crew] = TRUE
    THEN Add(ts, "OGI_cost", t.current_timestep, parameters.cost_per_day)
    ELSE ts

\* ------------------------------------------------------------------ Init
\* the grid says "deployable now" for every site but the blocked ones, and
\* the opposite at the other timestep
GridFor(n, kinds) ==
    [c \in GridCells |->
        IF c[1] <= n /\ kinds[c[1]] = "blocked" THEN c[3] # 1 ELSE c[3] = 1]

ZeroSeries == [i \in Timesteps |-> 0]

\* a registry of n sites for n in Sizes, each of an age and a kind drawn
SitesInit(Sizes, Ages, Kinds) ==
    \E n \in Sizes :
      \E ages \in [1..n -> Ages], kinds \in [1..n -> Kinds] :
         /\ sites = [i \in 1..n |-> MakeSite(i, ages[i], kinds[i])]
         /\ deployment_days = GridFor(n, kinds)

\* MaxLeaks leaks, their kinds drawn; the tag pool holds the tagged ones
LeaksInit(KindsOfLeaks) ==
    \E kinds \in KindsOfLeaks :
       /\ leaks = [i \in 1..MaxLeaks |-> MakeLeak(i, kinds[i])]
       /\ tags = SelectSeq([i \in 1..MaxLeaks |-> i],
                           LAMBDA i : kinds[i] = "tagged")

SettingsInit(Hours, Intervals, Pools) ==
    /\ \E h \in Hours, m \in Intervals :
         /\ parameters = [consider_daylight |-> h[1], max_workday |-> h[2],
                          min_interval |-> m, cost_per_day |-> 400]
         /\ daylight = [i \in Timesteps |-> h[3]]
    /\ offsite_times \in Pools

\* the state after the crews are constructed (lines 27-40), at midnight
StartInit ==
    /\ t = [current_date |-> [day |-> 1, min |-> 0], current_timestep |-> 1]
    /\ timeseries = [OGI_cost |-> ZeroSeries, OGI_redund_tags |-> ZeroSeries,
                     OGI_sites_visited |-> ZeroSeries]
    /\ worked_today = [c \in Crews |-> FALSE]
    /\ pc = "idle"
    /\ crew = 1
    /\ end_hour = 0
    /\ facility_ID = None
    /\ site = 0
    /\ leaks_present = <<>>
    /\ detect = 0
    /\ raised = NotRaised
    /\ call0 = [state |-> Snapshot, work_hours |-> 0, crew |-> 0]
    /\ visit0 = Snapshot

\* every registry of up to MaxSites sites, every setting of the hours, one
\* fresh and one tagged leak in turn
Init ==
    /\ SitesInit(0..MaxSites, AgeSet, SiteKinds)
    /\ LeaksInit({[i \in 1..MaxLeaks |-> IF i % 2 = 1 THEN "fresh" ELSE "tagged"]})
    /\ SettingsInit(HourSettings, MinIntervalSet, {<<60>>})
    /\ StartInit

\* every leak registry and both offsite pools, over registries of ripe sites
InitVisit ==
    /\ SitesInit({MaxSites}, {1}, NewSiteKinds)
    /\ LeaksInit([1..MaxLeaks -> LeakKinds])
    /\ SettingsInit({<<FALSE, 8, 12>>}, MinIntervalSet, {<<>>, <<60, 600>>})
    /\ StartInit

\* --------------------------------------------------------------- actions
\* lines 42-65: a crew is sent to work; the window is computed and the clock
\* set to its start, or the hours are refused and line 65 reads start_hour
\* before it was ever assigned
WorkADay(c) ==
    /\ pc = "idle"
    /\ LET work_hours == WorkHours IN
         /\ call0' = [state |-> Snapshot, work_hours |-> work_hours, crew |-> c]
         /\ IF HoursAccepted(work_hours)
            THEN /\ end_hour' = EndHour(work_hours)
                 /\ t' = [t EXCEPT !.current_date =
                             ReplaceHour(@, IntHour(StartHour(work_hours)))]
                 /\ raised' = NotRaised
                 /\ pc' = "loop"
            ELSE /\ raised' = [exc |-> "UnboundLocalError", line |-> 65]
                 /\ pc' = "idle"
                 /\ UNCHANGED <<t, end_hour>>
    /\ crew' = c
    /\ worked_today' = [worked_today EXCEPT ![c] = FALSE]
    /\ UNCHANGED <<sites, leaks, tags, timeseries, setup, facility_ID, site,
                   leaks_present, detect, visit0>>

\* lines 66-69 with choose_site (79-121): the loop condition holds and a site
\* is asked for.  With an empty registry the loop variable of line 92 is
\* never bound and line 121 fails reading it.
ChooseSite ==
    /\ pc = "loop"
    /\ Hour(t.current_date) < IntHour(end_hour)
    /\ LET r == choose_site IN
       /\ sites' = r.sites
       /\ t' = IF r.day_over
               THEN [t EXCEPT !.current_date = ReplaceHour(@, 23)]
               ELSE t
       /\ IF r.site = 0
          THEN /\ raised' = [exc |-> "UnboundLocalError", line |-> 121]
               /\ pc' = "idle"
               /\ end_hour' = 0
               /\ UNCHANGED <<facility_ID, site>>
          ELSE /\ facility_ID' = r.facility_ID
               /\ site' = r.site
               /\ pc' = IF r.found_site THEN "visit" ELSE "finish"
               /\ UNCHANGED <<raised, end_hour>>
    /\ UNCHANGED <<leaks, tags, timeseries, setup, worked_today, crew,
                   leaks_present, detect, call0, visit0>>

\* line 66: the loop condition fails
LoopExit ==
    /\ pc = "loop"
    /\ ~(Hour(t.current_date) < IntHour(end_hour))
    /\ pc' = "finish"
    /\ UNCHANGED <<shared, setup, worked_today, crew, end_hour, facility_ID,
                   site, leaks_present, detect, raised, call0, visit0>>

\* lines 123-133: visit_site is entered and collects the leaks to look at
VisitSite ==
    /\ pc = "visit"
    /\ leaks_present' = LeaksPresent(facility_ID)
    /\ visit0' = Snapshot
    /\ pc' = "detect"
    /\ UNCHANGED <<shared, setup, worked_today, crew, end_hour, facility_ID,
                   site, detect, raised, call0>>

\* lines 136-159: one turn of the detection loop
DetectLeak ==
    /\ pc = "detect"
    /\ leaks_present # <<>>
    /\ \E d \in DetectDraws(leaks[Head(leaks_present)]) :
         LET after == AfterDraw(Head(leaks_present), d) IN
         /\ detect' = d
         /\ leaks' = after.leaks
         /\ tags' = after.tags
         /\ sites' = after.sites
         /\ timeseries' = after.timeseries
    /\ leaks_present' = Tail(leaks_present)
    /\ UNCHANGED <<t, setup, worked_today, crew, end_hour, facility_ID, site,
                   pc, raised, call0, visit0>>

\* lines 161-163 and 71: the clock moves by the survey, an offsite time is
\* drawn and added, the visit is counted.  randint(0, 0) on an empty pool
\* raises ValueError after line 161 has moved the clock.
LeaveSite ==
    /\ pc = "detect"
    /\ leaks_present = <<>>
    /\ LET left == AfterSurvey(t.current_date, sites[site]) IN
       IF Len(offsite_times) = 0
       THEN /\ t' = [t EXCEPT !.current_date = left]
            /\ raised' = [exc |-> "ValueError", line |-> 162]
            /\ pc' = "idle"
            /\ end_hour' = 0
            /\ facility_ID' = None
            /\ site' = 0
            /\ UNCHANGED <<timeseries, worked_today>>
       ELSE /\ \E k \in 1..Len(offsite_times) :
                 t' = [t EXCEPT !.current_date =
                          AfterTravel(left, offsite_times[k])]
            /\ timeseries' = CountVisit(timeseries)
            /\ worked_today' = [worked_today EXCEPT ![crew] = TRUE]
            /\ pc' = "loop"
            /\ UNCHANGED <<raised, end_hour, facility_ID, site>>
    /\ detect' = 0
    /\ UNCHANGED <<sites, leaks, tags, setup, crew, leaks_present, call0,
                   visit0>>

\* lines 73-76: the day's cost is booked and work_a_day returns
FinishDay ==
    /\ pc = "finish"
    /\ timeseries' = DayCost(timeseries)
    /\ pc' = "idle"
    /\ end_hour' = 0
    /\ facility_ID' = None
    /\ site' = 0
    /\ UNCHANGED <<sites, leaks, tags, t, setup, worked_today, crew,
                   leaks_present, detect, raised, call0, visit0>>

Next ==
    \/ \E c \in Crews : WorkADay(c)
    \/ ChooseSite
    \/ LoopExit
    \/ VisitSite
    \/ DetectLeak
    \/ LeaveSite
    \/ FinishDay

Spec == Init /\ [][Next]_vars

SpecVisit == InitVisit /\ [][Next]_vars

\* ============================================================== properties
Returned == pc = "idle" /\ call0.crew # 0

Date0 == call0.state.t.current_date

\* the registry holds the same records as when the call began (choose_site
\* may have put them in another order)
SameSiteRecords(before, after) ==
    /\ Len(before) = Len(after)
    /\ \A i \in DOMAIN before : \E j \in DOMAIN after : after[j] = before[i]

\* C1: a work_a_day call whose work_hours is 0 or >= 24 fails with a
\* ConfigurationError and leaves the clock, the site and leak registries,
\* the tag pool and the timeseries as they were before the call.
C1_RefusedWithConfigurationError ==
    (Returned /\ ~(call0.work_hours < 24 /\ call0.work_hours # 0))
        => /\ raised.exc = "ConfigurationError"
           /\ Snapshot = call0.state

\* the oldest site not yet attempted today is younger than min_interval
GateAtStart(ss) ==
    /\ \E i \in DOMAIN ss : ss[i].attempted_today_OGI = FALSE
    /\ \A i \in DOMAIN ss :
          ss[i].attempted_today_OGI = FALSE
              => ss[i].OGI_t_since_last_LDAR < parameters.min_interval

\* nothing was visited or booked in the call
NoVisit ==
    /\ SameSiteRecords(call0.state.sites, sites)
    /\ leaks = call0.state.leaks
    /\ tags = call0.state.tags
    /\ timeseries = call0.state.timeseries
    /\ t.current_timestep = call0.state.t.current_timestep

\* the clock stands at hour 23 of the date on which the call began
AtHour23 ==
    /\ t.current_date.day = Date0.day
    /\ t.current_date.min \div 60 = 23

\* C2 as stated: if the oldest unattempted site is younger than min_interval
\* when work_a_day starts, no site is visited, no cost is booked and the clock
\* is moved to hour 23 of the current date.
C2_GateEndsDay_AnyHours ==
    (Returned /\ GateAtStart(call0.state.sites)) => (NoVisit /\ AtHour23)

\* C2 as amended: in that case no site is visited and no cost is booked; the
\* clock is moved to hour 23 of the current date when work_hours is neither
\* 0 nor >= 24, and is left where it was when the call is refused for its
\* hours.
C2_GateEndsDay ==
    (Returned /\ GateAtStart(call0.state.sites))
        => /\ NoVisit
           /\ IF call0.work_hours # 0 /\ call0.work_hours < 24
              THEN AtHour23
              ELSE t = call0.state.t

\* a day ended by the gate although an older, attempted site was ripe and
\* a younger site was open
C2_Witness ==
    /\ Returned
    /\ GateAtStart(call0.state.sites)
    /\ call0.work_hours # 0 /\ call0.work_hours < 24
    /\ AtHour23
    /\ \E i \in DOMAIN sites :
          /\ sites[i].attempted_today_OGI = TRUE
          /\ sites[i].OGI_t_since_last_LDAR >= parameters.min_interval
    /\ \E i \in DOMAIN sites :
          /\ sites[i].attempted_today_OGI = FALSE
          /\ sites[i].surveys_done_this_year_OGI < sites[i].OGI_required_surveys

\* C3: every visit starts inside the day's work window: on the date on which
\* the day began, at or after (24 - work_hours)/2 and before that plus
\* work_hours.  (Half hours times 30 are minutes.)
C3_VisitStartsInWindow ==
    pc = "visit"
        => /\ t.current_date.day = Date0.day
           /\ t.current_date.min >= 30 * (24 - call0.work_hours)
           /\ t.current_date.min < 30 * (24 + call0.work_hours)

\* C4: choose_site never raises; a scan that selects nothing, also over an
\* empty registry, returns found_site = False to its caller.
C4_ChooseSiteNeverRaises ==
    ~(raised.exc # "none" /\ raised.line = 121)

\* C5: with an empty offsite-time pool visit_site fails fast with
\* EmptyOffsiteTimePool and leaves nothing of the survey behind: leaks, tag
\* pool, the site's counters, the metrics and the clock are as at its start.
C5_EmptyPoolFailsFast ==
    (pc = "idle" /\ raised.line = 162)
        => /\ raised.exc = "EmptyOffsiteTimePool"
           /\ Snapshot = visit0

Now == t.current_timestep

\* C6: a detected leak that is already tagged adds exactly 1 to the
\* redundant-tag metric at the current timestep and changes neither the tag
\* pool nor any leak; a detected leak that is not tagged is appended to the
\* tag pool (its length grows by exactly 1), becomes tagged, and leaves the
\* redundant-tag metric alone.
C6_DetectionTagsOnce ==
    [][(pc = "detect" /\ leaks_present # <<>> /\ detect' = 1)
         => LET l == Head(leaks_present) IN
            IF leaks[l].tagged
            THEN /\ timeseries'.OGI_redund_tags =
                       [timeseries.OGI_redund_tags EXCEPT ![Now] = @ + 1]
                 /\ tags' = tags
                 /\ leaks' = leaks
            ELSE /\ Len(tags') = Len(tags) + 1
                 /\ tags' = Append(tags, l)
                 /\ leaks'[l].tagged = TRUE
                 /\ \A k \in DOMAIN leaks : k # l => leaks'[k] = leaks[k]
                 /\ timeseries'.OGI_redund_tags = timeseries.OGI_redund_tags
      ]_vars

\* both kinds of detection have happened: a redundant one was counted and a
\* leak was tagged by this company
C6_Witness ==
    /\ timeseries.OGI_redund_tags[Now] > 0
    /\ \E l \in DOMAIN leaks :
          /\ leaks[l].found_by_company = config.name
          /\ \E k \in DOMAIN tags : tags[k] = l

Discovery(leak) ==
    <<leak.date_found, leak.found_by_company, leak.found_by_crew>>

\* C7: a tagged leak never becomes untagged and its discovery metadata never
\* changes again; the metadata is written in the very step that sets the
\* flag (date, company and crew of that detection) and in no other step.
C7_TaggedForGood ==
    [][/\ DOMAIN leaks' = DOMAIN leaks
       /\ \A i \in DOMAIN leaks :
            /\ leaks[i].tagged
                 => leaks'[i].tagged /\ Discovery(leaks'[i]) = Discovery(leaks[i])
            /\ (~leaks[i].tagged /\ leaks'[i].tagged)
                 => Discovery(leaks'[i]) = <<t.current_date, config.name, crew>>
            /\ (~leaks[i].tagged /\ ~leaks'[i].tagged)
                 => Discovery(leaks'[i]) = Discovery(leaks[i])
      ]_vars

\* the last leak looked at was detected again by a crew other than the one of
\* this company that had found it
C7_Witness ==
    /\ pc = "detect" /\ leaks_present = <<>> /\ detect = 1
    /\ LeaksPresent(facility_ID) # <<>>
    /\ LET l == LeaksPresent(facility_ID)[Len(LeaksPresent(facility_ID))] IN
          /\ leaks[l].tagged
          /\ leaks[l].found_by_company = config.name
          /\ leaks[l].found_by_crew # crew
          /\ leaks[l].date_found # t.current_date

Visits0 == timeseries.OGI_sites_visited[Now]
               - call0.state.timeseries.OGI_sites_visited[Now]

\* C9: over one work_a_day call the cost at the current timestep grows by
\* cost_per_day, once, if a site was visited in the call, however many, and
\* not at all if none was; no other cost entry changes.
C9_DailyCostOnce ==
    Returned
        => timeseries.OGI_cost =
              [call0.state.timeseries.OGI_cost EXCEPT ![Now] =
                  @ + (IF Visits0 > 0 THEN parameters.cost_per_day ELSE 0)]

\* a day of two visits was booked once
C9_Witness ==
    /\ Returned
    /\ Visits0 >= 2
    /\ timeseries.OGI_cost[Now] =
          call0.state.timeseries.OGI_cost[Now] + parameters.cost_per_day

\* the record the facility at position i of the registry after the call had
\* before the call
Before(i) ==
    CHOOSE s \in {sites[j] : j \in DOMAIN sites} :
        s.facility_ID = sites'[i].facility_ID

Ripe(s) == s.OGI_t_since_last_LDAR >= parameters.min_interval

QuotaMet(s) == s.surveys_done_this_year_OGI >= s.OGI_required_surveys

DeployableNow(s) ==
    deployment_days[<<s.lon_index, s.lat_index, Now>>]

\* the scan gets past position i - 1 of the age order: every site before i was
\* attempted already, or was ripe and either at its quota or not deployable
ScanReaches(i) ==
    \A j \in 1..(i - 1) :
        \/ Before(j).attempted_today_OGI
        \/ Ripe(Before(j)) /\ (QuotaMet(Before(j)) \/ ~DeployableNow(Before(j)))

\* C10: an unattempted, ripe site that has reached its required surveys is
\* skipped by choose_site: it is not selected, none of its fields changes,
\* and the scan goes on to the next site in age order, which is selected
\* (the clock left alone) if it is itself eligible.  The steps looked at are
\* the choose_site calls: the loop condition of line 66 holds.
C10_QuotaMetIsSkipped ==
    [][(pc = "loop" /\ 2 * (t.current_date.min \div 60) < end_hour - (end_hour % 2))
         => \A i \in DOMAIN sites' :
               (/\ ScanReaches(i)
                /\ ~Before(i).attempted_today_OGI
                /\ Ripe(Before(i))
                /\ QuotaMet(Before(i)))
                  => /\ sites'[i] = Before(i)
                     /\ ~(pc' = "visit" /\ site' = i)
                     /\ facility_ID' # sites'[i].facility_ID
                     /\ (/\ i + 1 \in DOMAIN sites'
                         /\ ~Before(i + 1).attempted_today_OGI
                         /\ Ripe(Before(i + 1))
                         /\ ~QuotaMet(Before(i + 1))
                         /\ DeployableNow(Before(i + 1)))
                           => /\ pc' = "visit"
                              /\ site' = i + 1
                              /\ facility_ID' = sites'[i + 1].facility_ID
                              /\ t' = t
      ]_vars

\* a site was selected right after an older, unattempted, ripe site at its
\* quota
C10_Witness ==
    /\ pc = "visit"
    /\ site > 1
    /\ ~sites[site - 1].attempted_today_OGI
    /\ sites[site - 1].OGI_t_since_last_LDAR >= parameters.min_interval
    /\ sites[site - 1].surveys_done_this_year_OGI
          >= sites[site - 1].OGI_required_surveys
    /\ \A j \in 1..(site - 1) :
          sites[j].attempted_today_OGI \/ QuotaMet(sites[j])

\* the position in the registry before the call of the facility at position i
\* of the registry after it
Position0(i) ==
    CHOOSE j \in DOMAIN sites : sites[j].facility_ID = sites'[i].facility_ID

\* the loop condition of line 66 holds: the step from here is a choose_site
\* call
ChoosingSite ==
    pc = "loop" /\ 2 * (t.current_date.min \div 60) < end_hour - (end_hour % 2)

\* C12: after the ranking step of choose_site (line 86) the registry holds
\* the same sites as before the call, each once, in the order of
\* non-increasing age at the time of the call, and sites of equal age stand
\* in the order they had before the call.
C12_RankingIsStablePermutation ==
    [][ChoosingSite
         => /\ Len(sites') = Len(sites)
            /\ \A j \in DOMAIN sites :
                  Cardinality({i \in DOMAIN sites' :
                      sites'[i].facility_ID = sites[j].facility_ID}) = 1
            /\ \A i, j \in DOMAIN sites' :
                  i < j =>
                    /\ Before(i).OGI_t_since_last_LDAR
                          >= Before(j).OGI_t_since_last_LDAR
                    /\ (Before(i).OGI_t_since_last_LDAR
                           = Before(j).OGI_t_since_last_LDAR)
                          => Position0(i) < Position0(j)
      ]_vars

\* the first choose_site call of a working day has ranked a registry with
\* two sites of one age, and they stand in the order they had
C12_Witness ==
    /\ pc \in {"visit", "finish"}
    /\ raised = NotRaised
    /\ call0.state.timeseries = timeseries
    /\ Len(sites) = 2
    /\ call0.state.sites[1].OGI_t_since_last_LDAR
          = call0.state.sites[2].OGI_t_since_last_LDAR
    /\ sites[1].facility_ID = call0.state.sites[1].facility_ID
    /\ sites[2].facility_ID = call0.state.sites[2].facility_ID

\* C13: an active leak of rate exactly 0 is never detected: the draw for it
\* is 0, it is not tagged and none of its fields changes, it is not added to
\* the tag pool, the redundant-tag metric does not move, and the missed-leak
\* counter of the visited site goes up by exactly 1 for it.
C13_ZeroRateNeverDetected ==
    [][(/\ pc = "detect"
        /\ leaks_present # <<>>
        /\ leaks[Head(leaks_present)].rate = 0)
         => /\ detect' = 0
            /\ leaks' = leaks
            /\ tags' = tags
            /\ timeseries' = timeseries
            /\ sites'[site].OGI_missed_leaks = sites[site].OGI_missed_leaks + 1
            /\ \A i \in DOMAIN sites : i # site => sites'[i] = sites[i]
      ]_vars

\* the detection loop has just gone over an active leak of rate 0 at the
\* visited facility
C13_Witness ==
    /\ pc = "detect"
    /\ \E l \in DOMAIN leaks :
          /\ leaks[l].rate = 0
          /\ leaks[l].status = "active"
          /\ leaks[l].facility_ID = facility_ID
          /\ \A k \in 1..Len(leaks_present) : leaks_present[k] > l
          /\ \A k \in DOMAIN leaks : (k > l /\ leaks[k].status = "active"
                                        /\ leaks[k].facility_ID = facility_ID)
                => \E n \in DOMAIN leaks_present : leaks_present[n] = k
    /\ detect = 0
    /\ sites[site].OGI_missed_leaks > visit0.sites[site].OGI_missed_leaks

\* C14: a work_a_day call with valid work hours ends in one of two ways and
\* in no other: the loop condition of line 66 fails, or choose_site returns
\* found_site = False and line 69 breaks; either way the call gets to lines
\* 73-76 and returns without an exception.
C14_EndsByWindowOrNoSite ==
    (Returned /\ call0.work_hours < 24 /\ call0.work_hours # 0)
        => raised.exc = "none"

\* the same run with the interpreter never stopping in the middle of a call
SpecRunning == Init /\ [][Next]_vars /\ WF_vars(Next)

\* C14, the termination half: a call under way returns or raises
C14_CallEnds == (pc # "idle") ~> (pc = "idle")

\* C15: a choose_site call that returns a site selects exactly one: the
\* conducted counter and the this-year count of that site each go up by
\* exactly 1, its age becomes 0 and the facility id returned is its id; for
\* every other site the conducted counter, the this-year count, the age and
\* the missed-leak counter are unchanged, and nothing of it changes except
\* that attempted-today may have been set.
C15_SelectsExactlyOne ==
    [][(ChoosingSite /\ pc' = "visit")
         => /\ site' \in DOMAIN sites'
            /\ facility_ID' = sites'[site'].facility_ID
            /\ sites'[site'].OGI_surveys_conducted
                  = Before(site').OGI_surveys_conducted + 1
            /\ sites'[site'].surveys_done_this_year_OGI
                  = Before(site').surveys_done_this_year_OGI + 1
            /\ sites'[site'].OGI_t_since_last_LDAR = 0
            /\ \A i \in DOMAIN sites' :
                  i # site' =>
                    /\ sites'[i].OGI_surveys_conducted
                          = Before(i).OGI_surveys_conducted
                    /\ sites'[i].surveys_done_this_year_OGI
                          = Before(i).surveys_done_this_year_OGI
                    /\ sites'[i].OGI_t_since_last_LDAR
                          = Before(i).OGI_t_since_last_LDAR
                    /\ sites'[i].OGI_missed_leaks = Before(i).OGI_missed_leaks
                    /\ sites'[i] \in {Before(i),
                          [Before(i) EXCEPT !.attempted_today_OGI = TRUE]}
      ]_vars

\* the first choose_site call of a working day selected a site of age above
\* 0 and set attempted-today on another site on its way
C15_Witness ==
    /\ pc = "visit"
    /\ call0.state.timeseries = timeseries
    /\ \E j \in DOMAIN call0.state.sites :
          /\ call0.state.sites[j].facility_ID = facility_ID
          /\ call0.state.sites[j].OGI_t_since_last_LDAR > 0
    /\ \E i \in DOMAIN sites, j \in DOMAIN call0.state.sites :
          /\ i # site
          /\ call0.state.sites[j].facility_ID = sites[i].facility_ID
          /\ call0.state.sites[j].attempted_today_OGI = FALSE
          /\ sites[i].attempted_today_OGI = TRUE

\* all four conditions of lines 95-106 hold of the record s
Eligible(s) ==
    /\ s.attempted_today_OGI = FALSE
    /\ s.OGI_t_since_last_LDAR >= parameters.min_interval
    /\ s.surveys_done_this_year_OGI < s.OGI_required_surveys
    /\ deployment_days[<<s.lon_index, s.lat_index, t.current_timestep>>]

\* C16: the site a choose_site call selects satisfied all four conditions
\* when the call began (not attempted today, age at least min_interval,
\* this-year count below the required surveys, deployable at its grid cell
\* at the current timestep), and it is the first such site in age-descending
\* stable order: no eligible site is older, and no eligible site of the same
\* age stood before it in the registry.
C16_SelectsFirstEligible ==
    [][(ChoosingSite /\ pc' = "visit")
         => /\ Eligible(Before(site'))
            /\ \A j \in DOMAIN sites :
                  Eligible(sites[j]) =>
                    \/ sites[j].OGI_t_since_last_LDAR
                          < Before(site').OGI_t_since_last_LDAR
                    \/ /\ sites[j].OGI_t_since_last_LDAR
                             = Before(site').OGI_t_since_last_LDAR
                       /\ j >= Position0(site')
      ]_vars

\* the first choose_site call of a working day selected the second site of
\* the registry, the first being eligible too, and younger
C16_Witness ==
    /\ pc = "visit"
    /\ call0.state.timeseries = timeseries
    /\ Len(sites) = 2
    /\ call0.state.sites[2].facility_ID = facility_ID
    /\ call0.state.sites[1].attempted_today_OGI = FALSE
    /\ call0.state.sites[1].OGI_t_since_last_LDAR >= parameters.min_interval
    /\ call0.state.sites[1].OGI_t_since_last_LDAR
          < call0.state.sites[2].OGI_t_since_last_LDAR
    /\ call0.state.sites[1].surveys_done_this_year_OGI
          < call0.state.sites[1].OGI_required_surveys
    /\ deployment_days[<<call0.state.sites[1].lon_index,
                         call0.state.sites[1].lat_index, Now>>]

\* C17: a site's attempted-today flag changes only from false to true, and
\* only in a choose_site call whose scan reached the site with its age at
\* least min_interval, its this-year count below the required surveys and
\* its grid cell not deployable at the current timestep; no step, the start
\* of a new work_a_day call included, sets it back to false; and the site a
\* call selects is not marked attempted by that call.
C17_AttemptedOnlySetWhenBlocked ==
    [][\A i \in DOMAIN sites' :
          /\ Before(i).attempted_today_OGI = TRUE
                => sites'[i].attempted_today_OGI = TRUE
          /\ (Before(i).attempted_today_OGI = FALSE
                 /\ sites'[i].attempted_today_OGI # FALSE)
                => /\ ChoosingSite
                   /\ ScanReaches(i)
                   /\ Before(i).OGI_t_since_last_LDAR >= parameters.min_interval
                   /\ Before(i).surveys_done_this_year_OGI
                         < Before(i).OGI_required_surveys
                   /\ ~deployment_days[<<Before(i).lon_index,
                                         Before(i).lat_index, Now>>]
          /\ (ChoosingSite /\ pc' = "visit" /\ site' = i)
                => sites'[i].attempted_today_OGI
                      = Before(i).attempted_today_OGI
      ]_vars

\* a work_a_day call has begun on a registry in which an earlier call had
\* marked a site attempted for its grid cell, and the mark is still there
C17_Witness ==
    /\ pc = "loop"
    /\ \E i \in DOMAIN sites, j \in DOMAIN call0.state.sites :
          /\ sites[i].facility_ID = call0.state.sites[j].facility_ID
          /\ sites[i].attempted_today_OGI = TRUE
          /\ call0.state.sites[j].attempted_today_OGI = TRUE
          /\ ~deployment_days[<<sites[i].lon_index, sites[i].lat_index, Now>>]

\* C18: every site starting with its this-year survey count at or below its
\* required surveys, the count stays at or below the required surveys after
\* any sequence of calls by any of the crews: a site that has reached its
\* quota is not selected again.
C18_QuotaNeverExceeded ==
    \A i \in DOMAIN sites :
        sites[i].surveys_done_this_year_OGI <= sites[i].OGI_required_surveys

\* a site selected in this call reached its quota by it, and a later
\* choose_site call of the same working day, inside the window and with
\* min_interval 0, found no site to select
C18_Witness ==
    /\ pc = "finish"
    /\ parameters.min_interval = 0
    /\ t.current_date.min \div 60 < end_hour \div 2
    /\ \E i \in DOMAIN sites, j \in DOMAIN call0.state.sites :
          /\ sites[i].facility_ID = call0.state.sites[j].facility_ID
          /\ sites[i].attempted_today_OGI = FALSE
          /\ sites[i].surveys_done_this_year_OGI = sites[i].OGI_required_surveys
          /\ call0.state.sites[j].surveys_done_this_year_OGI
                < call0.state.sites[j].OGI_required_surveys

\* C19: with min_interval above 0 no site is selected more than once in a
\* simulation day, whatever choose_site and work_a_day calls the crews make
\* one after another.  A step selects a site at most once; a selected site
\* had an age above 0 and has age 0 from then on; a site of age 0 (surveyed
\* earlier that day) keeps age 0, is never selected, and when the scan
\* reaches it unattempted it ends the day through the interval gate: nothing
\* is selected and the clock goes to hour 23.
C19_OncePerDay ==
    [][parameters.min_interval > 0
         => \A i \in DOMAIN sites' :
               /\ sites'[i].OGI_surveys_conducted
                     \in {Before(i).OGI_surveys_conducted,
                          Before(i).OGI_surveys_conducted + 1}
               /\ sites'[i].OGI_surveys_conducted
                     # Before(i).OGI_surveys_conducted
                     => /\ Before(i).OGI_t_since_last_LDAR > 0
                        /\ sites'[i].OGI_t_since_last_LDAR = 0
               /\ Before(i).OGI_t_since_last_LDAR = 0
                     => /\ sites'[i].OGI_t_since_last_LDAR = 0
                        /\ sites'[i].OGI_surveys_conducted
                              = Before(i).OGI_surveys_conducted
               /\ (/\ ChoosingSite
                   /\ ScanReaches(i)
                   /\ Before(i).attempted_today_OGI = FALSE
                   /\ Before(i).OGI_t_since_last_LDAR = 0)
                     => /\ pc' = "finish"
                        /\ facility_ID' = None
                        /\ t'.current_date.min \div 60 = 23
                        /\ \A j \in DOMAIN sites' :
                              sites'[j].OGI_surveys_conducted
                                 = Before(j).OGI_surveys_conducted
      ]_vars

\* with min_interval above 0, the scan of a later choose_site call of the
\* working day stopped at the site the crew surveyed earlier in that day,
\* and the day is over at hour 23
C19_Witness ==
    /\ pc = "finish"
    /\ parameters.min_interval > 0
    /\ t.current_date.min \div 60 = 23
    /\ site \in DOMAIN sites
    /\ sites[site].OGI_t_since_last_LDAR = 0
    /\ sites[site].attempted_today_OGI = FALSE
    /\ \E j \in DOMAIN call0.state.sites :
          /\ call0.state.sites[j].facility_ID = sites[site].facility_ID
          /\ sites[site].OGI_surveys_conducted
                = call0.state.sites[j].OGI_surveys_conducted + 1

\* with min_interval 0 one site has been selected twice in one working day
SelectedTwiceInOneCall ==
    /\ parameters.min_interval = 0
    /\ \E i \in DOMAIN sites, j \in DOMAIN call0.state.sites :
          /\ call0.state.sites[j].facility_ID = sites[i].facility_ID
          /\ sites[i].OGI_surveys_conducted
                = call0.state.sites[j].OGI_surveys_conducted + 2

\* the leaks of the visited facility that were active when visit_site began
ActiveAtVisit ==
    {l \in DOMAIN visit0.leaks :
        /\ visit0.leaks[l].facility_ID = facility_ID
        /\ visit0.leaks[l].status = "active"}

\* C20: over a completed visit_site call the growth of the redundant-tag
\* metric at the current timestep, the growth of the tag pool and the growth
\* of the visited site's missed-leak counter add up to the number of leaks
\* that were active at the facility when the call began; a leak that is
\* inactive or of another facility is left exactly as it was, is not
\* appended to the tag pool and is not counted.
C20_EveryActiveLeakCountedOnce ==
    [][(pc = "detect" /\ pc' = "loop")
         => /\ (timeseries'.OGI_redund_tags[Now]
                   - visit0.timeseries.OGI_redund_tags[Now])
                + (Len(tags') - Len(visit0.tags))
                + (sites'[site].OGI_missed_leaks
                     - visit0.sites[site].OGI_missed_leaks)
                  = Cardinality(ActiveAtVisit)
            /\ Len(leaks') = Len(visit0.leaks)
            /\ SubSeq(tags', 1, Len(visit0.tags)) = visit0.tags
            /\ \A l \in DOMAIN visit0.leaks :
                  l \notin ActiveAtVisit
                    => /\ leaks'[l] = visit0.leaks[l]
                       /\ \A k \in (Len(visit0.tags) + 1)..Len(tags') :
                             tags'[k] # l
      ]_vars

\* a visit has been completed at a facility with an active and an inactive
\* leak
C20_Witness ==
    /\ pc = "loop"
    /\ raised = NotRaised
    /\ timeseries.OGI_sites_visited[Now]
          = visit0.timeseries.OGI_sites_visited[Now] + 1
    /\ \E a, b \in DOMAIN leaks :
          /\ leaks[a].facility_ID = facility_ID
          /\ leaks[b].facility_ID = facility_ID
          /\ visit0.leaks[a].status = "active"
          /\ visit0.leaks[b].status = "inactive"

====
